---- MODULE Spec2Model ----
(***************************************************************************)
(* The feedback form of react-sentiment-analysis-form as a state machine.  *)
(*                                                                         *)
(* Two components are modelled: src/components/SentimentAnalysisForm.tsx   *)
(* (the one App.tsx mounts) and its near-duplicate src/unnamed/part_000.   *)
(* They differ in one place the state machine can see: the first keeps an  *)
(* isFormValid flag (refreshed by an effect) and disables the submit       *)
(* button with it; the second disables the button only while loading.      *)
(*                                                                         *)
(* A step of the model is one browser task: a user event with the          *)
(* re-render and effects it causes, or the settling of the fetch promise   *)
(* with the rest of handleSubmit.  Text is a sequence of one-character     *)
(* strings, so that trim, length and the e-mail pattern are computed.      *)
(* Left out: hoveredRating, isDarkMode and the payload's timestamp, which  *)
(* no transition reads.                                                    *)
(***************************************************************************)
EXTENDS Integers, Sequences, FiniteSets, TLC

VARIABLES
    component,       \* which of the two components is mounted
    WEBHOOK_URL,     \* import.meta.env.VITE_WEBHOOK_URL, "" when not set
    selectedRating, feedback, name, email,
    isSubmitted, isLoading, errors, touched, submitError, isFormValid,
    view,            \* what the last render put on the screen
    awaiting,        \* handleSubmit calls suspended at their await, each with
                     \* the payload it built and whether it called fetch()
    uncaught,        \* TRUE once a fault has escaped handleSubmit
    last             \* the step taken last (history, read by the properties)

vars == <<component, WEBHOOK_URL, selectedRating, feedback, name, email,
          isSubmitted, isLoading, errors, touched, submitError, isFormValid,
          view, awaiting, uncaught, last>>

-----------------------------------------------------------------------------
(* Bounds and input alphabets *)

\* at most MaxAwaiting calls of handleSubmit are suspended at a time
MaxAwaiting == 2

Main == "SentimentAnalysisForm.tsx"
Legacy == "part_000"
Components == {Main, Legacy}

Urls == {"", "https://hooks.example/feedback"}

\* useState<number | null>(null): the unset rating
Null == 0
Ratings == {1, 2, 3}

Whitespace == {" ", "\t", "\n"}

Rep(c, n) == [i \in 1..n |-> c]

\* values typed into the feedback text area
FeedbackInputs ==
    { << >>,
      <<" ">>,
      <<" ">> \o Rep("a", 9) \o <<" ">>,      \* 11 characters, 9 when trimmed
      <<" ">> \o Rep("a", 10) }               \* 11 characters, 10 when trimmed

NameInputs == { << >>, <<" ">>, <<" ", "A", " ">> }

EmailInputs ==
    { << >>,
      <<"a", "@", "b", ".", "c", "o">>,
      <<" ", "a", "@", "b", ".", "c", "o">> }     \* not trimmed before the test

Fields == {"feedback", "name", "email"}

\* what the endpoint may answer: status, statusText and a body
Responses ==
    { [status |-> 200, statusText |-> "OK", body |-> "{}"],
      [status |-> 200, statusText |-> "OK", body |-> "not json"],
      [status |-> 204, statusText |-> "No Content", body |-> ""],
      [status |-> 500, statusText |-> "Internal Server Error", body |-> ""] }

\* what fetch() may reject with: an Error (possibly with an empty message)
\* or a value that is not an Error
Faults ==
    { [isError |-> TRUE, message |-> "Failed to fetch"],
      [isError |-> TRUE, message |-> ""],
      [isError |-> FALSE, message |-> "aborted"] }

Outcomes ==
    { [kind |-> "response", response |-> r] : r \in Responses }
    \cup { [kind |-> "reject", error |-> e] : e \in Faults }

-----------------------------------------------------------------------------
(* JavaScript helpers *)

RECURSIVE trimStart(_)
trimStart(s) ==
    IF s # << >> /\ Head(s) \in Whitespace THEN trimStart(Tail(s)) ELSE s

RECURSIVE trimEnd(_)
trimEnd(s) ==
    IF s # << >> /\ s[Len(s)] \in Whitespace
    THEN trimEnd(SubSeq(s, 1, Len(s) - 1))
    ELSE s

\* String.prototype.trim
trim(s) == trimEnd(trimStart(s))

\* truthiness of a string: non-empty
Truthy(s) == s # << >>

\* truthiness of number | null: neither null nor 0
RatingSet(r) == r # Null

\* the character class [^\s@]
NotSpaceNorAt(c) == c \notin Whitespace /\ c # "@"

\* (variant: the pattern /^[^\s@]+@[^\s@]+$/, which asks for no '.')
validateEmailWithoutTld(e) ==
    \E i \in 1..Len(e) :
        /\ e[i] = "@"
        /\ 1 < i
        /\ i < Len(e)
        /\ \A k \in 1..Len(e) : k # i => NotSpaceNorAt(e[k])

\* /^[^\s@]+@[^\s@]+\.[^\s@]+$/.test(e)
validateEmail(e) ==
    \E i \in 1..Len(e) : \E j \in 1..Len(e) :
        /\ e[i] = "@"
        /\ e[j] = "."
        /\ 1 < i
        /\ i + 1 < j
        /\ j < Len(e)
        /\ \A k \in 1..Len(e) : (k # i /\ k # j) => NotSpaceNorAt(e[k])

\* feedback.trim().length < 10
MinFeedbackLength == 10

NoErrors == [f \in {} |-> ""]

\* the newErrors object validateForm builds: a key is present iff the
\* field has an error
newErrors(fb, nm, em) ==
    (IF ~Truthy(trim(fb)) THEN "feedback" :> "Feedback is required"
     ELSE IF Len(trim(fb)) < MinFeedbackLength
          THEN "feedback" :> "Feedback must be at least 10 characters"
          ELSE NoErrors)
    @@ (IF ~Truthy(trim(nm)) THEN "name" :> "Name is required" ELSE NoErrors)
    @@ (IF ~Truthy(trim(em)) THEN "email" :> "Email is required"
        ELSE IF ~validateEmail(em)
             THEN "email" :> "Please enter a valid email address"
             ELSE NoErrors)

\* validateForm's return value: Object.keys(newErrors).length === 0
validateForm(fb, nm, em) == DOMAIN newErrors(fb, nm, em) = {}

\* (variant: hasErrors looks at the feedback length only)
checkFormValidityWithoutEmailTest ==
    IF ~RatingSet(selectedRating) \/ ~Truthy(trim(feedback))
       \/ ~Truthy(trim(name)) \/ ~Truthy(trim(email))
    THEN FALSE
    ELSE LET hasErrors == Len(trim(feedback)) < MinFeedbackLength
         IN  ~hasErrors

\* checkFormValidity (SentimentAnalysisForm.tsx only)
checkFormValidity ==
    IF ~RatingSet(selectedRating) \/ ~Truthy(trim(feedback))
       \/ ~Truthy(trim(name)) \/ ~Truthy(trim(email))
    THEN FALSE
    ELSE LET hasErrors == Len(trim(feedback)) < MinFeedbackLength
                          \/ ~validateEmail(email)
         IN  ~hasErrors

-----------------------------------------------------------------------------
(* Rendering: the JSX of the component as a function of its state *)

\* (variant: the form is still rendered behind the thank-you screen)
feedbackAreaShownAfterSubmit == RatingSet(selectedRating)

\* {selectedRating && ( <textarea .../> )}
feedbackAreaShown == ~isSubmitted /\ RatingSet(selectedRating)

\* (variant: the feedback is tested without trimming it)
contactFieldsShownUntrimmed ==
    ~isSubmitted /\ RatingSet(selectedRating) /\ Truthy(feedback)

\* {selectedRating && feedback.trim() && ( name and email inputs )}
contactFieldsShown ==
    ~isSubmitted /\ RatingSet(selectedRating) /\ Truthy(trim(feedback))

\* {selectedRating && feedback.trim() && name.trim() && email.trim() && ( button )}
submitSectionShown ==
    /\ ~isSubmitted
    /\ RatingSet(selectedRating)
    /\ Truthy(trim(feedback))
    /\ Truthy(trim(name))
    /\ Truthy(trim(email))

\* (variant: the button stays disabled once a submission has failed)
submitDisabledAfterFailure ==
    IF component = Main
    THEN isLoading \/ ~isFormValid \/ submitError # ""
    ELSE isLoading \/ submitError # ""

\* (variant: the button forgets the loading flag)
submitDisabledIgnoringLoading ==
    IF component = Main THEN ~isFormValid ELSE FALSE

\* the button's disabled attribute
submitDisabled ==
    IF component = Main THEN isLoading \/ ~isFormValid ELSE isLoading

\* (variant: {errors.f && ( <span>{errors.f}</span> )}, without the flag)
inlineErrorIgnoringTouched(f) ==
    LET shown == IF f = "feedback" THEN feedbackAreaShown ELSE contactFieldsShown
    IN  IF f \in DOMAIN errors /\ shown THEN errors[f] ELSE ""

\* {touched.f && errors.f && ( <span>{errors.f}</span> )}, inside f's section
inlineError(f) ==
    LET shown == IF f = "feedback" THEN feedbackAreaShown ELSE contactFieldsShown
    IN  IF touched[f] /\ f \in DOMAIN errors /\ shown THEN errors[f] ELSE ""

\* {submitError && ( <span>{submitError}</span> )}, inside the submit section
submitErrorBox ==
    IF submitError # "" /\ submitSectionShown THEN submitError ELSE ""

Render ==
    [ thankYou       |-> isSubmitted,
      ratingPicker   |-> ~isSubmitted,
      feedbackArea   |-> feedbackAreaShown,
      contactFields  |-> contactFieldsShown,
      submitButton   |-> submitSectionShown,
      submitEnabled  |-> submitSectionShown /\ ~submitDisabled,
      inlineErrors   |-> [f \in Fields |-> inlineError(f)],
      submitErrorBox |-> submitErrorBox ]

\* The re-render a step ends with.  In SentimentAnalysisForm.tsx the effect
\* on [selectedRating, feedback, name, email] first refreshes isFormValid;
\* `set` is the value the handler itself left in isFormValid.
Commit(set) ==
    /\ isFormValid' =
         IF component = Main
            /\ <<selectedRating, feedback, name, email>>'
                 # <<selectedRating, feedback, name, email>>
         THEN checkFormValidity'
         ELSE set
    /\ view' = Render'

-----------------------------------------------------------------------------
(* The webhook client and the submission *)

Return(v) == [kind |-> "return", value |-> v]
Throw(e) == [kind |-> "throw", error |-> e]

\* response.ok
ok(response) == response.status >= 200 /\ response.status <= 299

\* if (!WEBHOOK_URL) return { success: false, message: ... }
configError ==
    [success |-> FALSE,
     message |-> "Webhook configuration error. Please try again later."]

\* (variant: the response body is parsed, and a body that is not JSON throws)
submitToWebhookTryParsingBody(o) ==
    IF o.kind = "reject" THEN Throw(o.error)
    ELSE IF ~(o.response.status >= 200 /\ o.response.status <= 299)
         THEN Throw([isError |-> TRUE,
                     message |-> "Webhook error: "
                                 \o ToString(o.response.status) \o " "
                                 \o o.response.statusText])
         ELSE IF o.response.body # "{}"
              THEN Throw([isError |-> TRUE, message |-> "Unexpected end of JSON input"])
              ELSE Return([success |-> TRUE,
                           message |-> "Feedback submitted successfully"])

\* the try block of submitToWebhook, once fetch has settled with `o`
submitToWebhookTry(o) ==
    IF o.kind = "reject" THEN Throw(o.error)
    ELSE IF ~ok(o.response)
         THEN Throw([isError |-> TRUE,
                     message |-> "Webhook error: "
                                 \o ToString(o.response.status) \o " "
                                 \o o.response.statusText])
         ELSE Return([success |-> TRUE,
                      message |-> "Feedback submitted successfully"])

\* (variant: submitToWebhook has no catch clause)
submitToWebhookNoCatch(c) == c

\* the catch clause of submitToWebhook
submitToWebhookCatch(c) ==
    IF c.kind = "throw"
    THEN Return([success |-> FALSE,
                 message |-> IF c.error.isError THEN c.error.message
                             ELSE "Failed to submit feedback"])
    ELSE c

\* how `await submitToWebhook(feedbackData)` completes
submitToWebhook(o) == submitToWebhookCatch(submitToWebhookTry(o))

\* the try block of handleSubmit after the await: the state it sets
handleSubmitTry(c) ==
    IF c.kind = "throw"
    THEN [kind |-> "throw", isSubmitted |-> isSubmitted, submitError |-> submitError]
    ELSE IF c.value.success
         THEN [kind |-> "return", isSubmitted |-> TRUE, submitError |-> submitError]
         ELSE [kind |-> "return", isSubmitted |-> isSubmitted,
               submitError |-> IF c.value.message # "" THEN c.value.message
                               ELSE "Failed to submit feedback"]

\* the catch clause of handleSubmit
handleSubmitCatch(t) ==
    IF t.kind = "throw"
    THEN [t EXCEPT !.kind = "return",
                   !.submitError = "An unexpected error occurred. Please try again."]
    ELSE t

\* (variant: the payload carries the fields as typed)
feedbackDataUntrimmed ==
    [rating |-> selectedRating, feedback |-> feedback,
     name |-> name, email |-> email]

\* const feedbackData = { rating, feedback.trim(), name.trim(), email.trim() }
feedbackData ==
    [rating |-> selectedRating, feedback |-> trim(feedback),
     name |-> trim(name), email |-> trim(email)]

\* a resolved promise is resumed before the browser handles another event
MicrotaskQueued == \E i \in DOMAIN awaiting : ~awaiting[i].fetch

Remove(s, i) == SubSeq(s, 1, i - 1) \o SubSeq(s, i + 1, Len(s))

-----------------------------------------------------------------------------
(* Initial state: the component as mounted *)

untouched == [f \in Fields |-> FALSE]

Init ==
    /\ component \in Components
    /\ WEBHOOK_URL \in Urls
    /\ selectedRating = Null
    /\ feedback = << >>
    /\ name = << >>
    /\ email = << >>
    /\ isSubmitted = FALSE
    /\ isLoading = FALSE
    /\ errors = NoErrors
    /\ touched = untouched
    /\ submitError = ""
    /\ isFormValid = FALSE
    /\ view = Render
    /\ awaiting = << >>
    /\ uncaught = FALSE
    /\ last = [op |-> "mount"]

env == <<component, WEBHOOK_URL>>
net == <<awaiting, uncaught>>

-----------------------------------------------------------------------------
(* User events *)

\* onClick={() => setSelectedRating(item.value)}
selectRating(r) ==
    /\ view.ratingPicker
    /\ ~MicrotaskQueued
    /\ selectedRating' = r
    /\ UNCHANGED <<feedback, name, email, isSubmitted, isLoading, errors,
                   touched, submitError>>
    /\ UNCHANGED <<env, net>>
    /\ last' = [op |-> "edit"]
    /\ Commit(isFormValid)

\* onChange={(e) => setFeedback(e.target.value)}
changeFeedback(v) ==
    /\ view.feedbackArea
    /\ ~MicrotaskQueued
    /\ v # feedback
    /\ feedback' = v
    /\ UNCHANGED <<selectedRating, name, email, isSubmitted, isLoading, errors,
                   touched, submitError>>
    /\ UNCHANGED <<env, net>>
    /\ last' = [op |-> "edit"]
    /\ Commit(isFormValid)

\* onChange={(e) => setName(e.target.value)}
changeName(v) ==
    /\ view.contactFields
    /\ ~MicrotaskQueued
    /\ v # name
    /\ name' = v
    /\ UNCHANGED <<selectedRating, feedback, email, isSubmitted, isLoading,
                   errors, touched, submitError>>
    /\ UNCHANGED <<env, net>>
    /\ last' = [op |-> "edit"]
    /\ Commit(isFormValid)

\* onChange={(e) => setEmail(e.target.value)}
changeEmail(v) ==
    /\ view.contactFields
    /\ ~MicrotaskQueued
    /\ v # email
    /\ email' = v
    /\ UNCHANGED <<selectedRating, feedback, name, isSubmitted, isLoading,
                   errors, touched, submitError>>
    /\ UNCHANGED <<env, net>>
    /\ last' = [op |-> "edit"]
    /\ Commit(isFormValid)

\* (variant: handleBlur sets the flag and does not call validateForm)
handleBlurWithoutValidation(f) ==
    /\ IF f = "feedback" THEN view.feedbackArea ELSE view.contactFields
    /\ ~MicrotaskQueued
    /\ touched' = [touched EXCEPT ![f] = TRUE]
    /\ UNCHANGED errors
    /\ UNCHANGED <<selectedRating, feedback, name, email, isSubmitted,
                   isLoading, submitError>>
    /\ UNCHANGED <<env, net>>
    /\ last' = [op |-> "edit"]
    /\ Commit(isFormValid)

\* onBlur={() => handleBlur(f)}
handleBlur(f) ==
    /\ IF f = "feedback" THEN view.feedbackArea ELSE view.contactFields
    /\ ~MicrotaskQueued
    /\ touched' = [touched EXCEPT ![f] = TRUE]
    /\ errors' = newErrors(feedback, name, email)
    /\ UNCHANGED <<selectedRating, feedback, name, email, isSubmitted,
                   isLoading, submitError>>
    /\ UNCHANGED <<env, net>>
    /\ last' = [op |-> "edit"]
    /\ Commit(isFormValid)

\* (variant: submitToWebhook fetches whatever WEBHOOK_URL holds)
endpointConfiguredUnchecked == TRUE

\* if (!WEBHOOK_URL) return the configuration error, else fetch(WEBHOOK_URL)
endpointConfigured == WEBHOOK_URL # ""

\* (variant: handleSubmit trusts the button and does not validate again)
submitAcceptedUnvalidated == RatingSet(selectedRating)

\* if (validateForm() && selectedRating)
submitAccepted ==
    validateForm(feedback, name, email) /\ RatingSet(selectedRating)

\* (variant: an accepted submit leaves the earlier failure message in place)
handleSubmitKeepingError ==
    LET accepted == submitAccepted
        callsFetch == accepted /\ endpointConfigured
    IN  /\ touched' = [f \in Fields |-> TRUE]
        /\ errors' = newErrors(feedback, name, email)
        /\ IF accepted
           THEN /\ isLoading' = TRUE
                /\ awaiting' = Append(awaiting,
                                      [data |-> feedbackData, fetch |-> callsFetch])
                /\ UNCHANGED submitError
           ELSE UNCHANGED <<isLoading, submitError, awaiting>>
        /\ UNCHANGED <<selectedRating, feedback, name, email, isSubmitted>>
        /\ UNCHANGED <<env, uncaught>>
        /\ last' = [op |-> "submit", accepted |-> accepted,
                    retry |-> submitError # "", fresh |-> touched = untouched]
        /\ Commit(isFormValid)

\* handleSubmit up to its await
handleSubmit ==
    LET accepted == submitAccepted
        callsFetch == accepted /\ endpointConfigured
    IN  /\ touched' = [f \in Fields |-> TRUE]
        /\ errors' = newErrors(feedback, name, email)
        /\ IF accepted
           THEN /\ isLoading' = TRUE
                /\ submitError' = ""
                /\ awaiting' = Append(awaiting,
                                      [data |-> feedbackData, fetch |-> callsFetch])
           ELSE UNCHANGED <<isLoading, submitError, awaiting>>
        /\ UNCHANGED <<selectedRating, feedback, name, email, isSubmitted>>
        /\ UNCHANGED <<env, uncaught>>
        /\ last' = [op |-> "submit", accepted |-> accepted,
                    retry |-> submitError # "", fresh |-> touched = untouched]
        /\ Commit(isFormValid)

\* onClick={handleSubmit} on a button that is rendered and not disabled
clickSubmit ==
    /\ view.submitEnabled
    /\ ~MicrotaskQueued
    /\ Len(awaiting) < MaxAwaiting
    /\ handleSubmit

\* (variant: a failed submission clears the form, as a reset does)
handleSubmitResumeClearing(i, c) ==
    LET t == handleSubmitCatch(handleSubmitTry(c))
    IN  /\ isSubmitted' = t.isSubmitted
        /\ submitError' = t.submitError
        /\ isLoading' = FALSE
        /\ uncaught' = (uncaught \/ t.kind = "throw")
        /\ awaiting' = Remove(awaiting, i)
        /\ IF t.isSubmitted
           THEN UNCHANGED <<selectedRating, feedback, name, email, touched>>
           ELSE /\ selectedRating' = Null
                /\ feedback' = << >>
                /\ name' = << >>
                /\ email' = << >>
                /\ touched' = untouched
        /\ UNCHANGED errors
        /\ UNCHANGED env
        /\ Commit(isFormValid)

\* (variant: setIsLoading(false) sits at the end of the try block, after the
\* success branch, instead of in a finally clause)
handleSubmitResumeWithoutFinally(i, c) ==
    LET t == handleSubmitCatch(handleSubmitTry(c))
    IN  /\ isSubmitted' = t.isSubmitted
        /\ submitError' = t.submitError
        /\ isLoading' = IF t.isSubmitted THEN FALSE ELSE isLoading
        /\ uncaught' = (uncaught \/ t.kind = "throw")
        /\ awaiting' = Remove(awaiting, i)
        /\ UNCHANGED <<selectedRating, feedback, name, email, errors, touched>>
        /\ UNCHANGED env
        /\ Commit(isFormValid)

\* handleSubmit from its await on, given how submitToWebhook completed
handleSubmitResume(i, c) ==
    LET t == handleSubmitCatch(handleSubmitTry(c))
    IN  /\ isSubmitted' = t.isSubmitted
        /\ submitError' = t.submitError
        /\ isLoading' = FALSE
        /\ uncaught' = (uncaught \/ t.kind = "throw")
        /\ awaiting' = Remove(awaiting, i)
        /\ UNCHANGED <<selectedRating, feedback, name, email, errors, touched>>
        /\ UNCHANGED env
        /\ Commit(isFormValid)

\* the fetch promise of a suspended submission settles
fetchSettles(i, o) ==
    /\ i \in DOMAIN awaiting
    /\ awaiting[i].fetch
    /\ ~MicrotaskQueued
    /\ last' = [op |-> "settle", outcome |-> o]
    /\ handleSubmitResume(i, submitToWebhook(o))

\* submitToWebhook returned without fetching: no endpoint is configured
configErrorReturns(i) ==
    /\ i \in DOMAIN awaiting
    /\ ~awaiting[i].fetch
    /\ last' = [op |-> "configError"]
    /\ handleSubmitResume(i, Return(configError))

\* (variant: reset forgets the touched flags)
handleResetKeepingTouched ==
    /\ view.thankYou
    /\ ~MicrotaskQueued
    /\ selectedRating' = Null
    /\ feedback' = << >>
    /\ name' = << >>
    /\ email' = << >>
    /\ isSubmitted' = FALSE
    /\ errors' = NoErrors
    /\ submitError' = ""
    /\ UNCHANGED <<touched, isLoading>>
    /\ UNCHANGED <<env, net>>
    /\ last' = [op |-> "reset"]
    /\ Commit(FALSE)

\* onClick={handleReset} on the thank-you screen
handleReset ==
    /\ view.thankYou
    /\ ~MicrotaskQueued
    /\ selectedRating' = Null
    /\ feedback' = << >>
    /\ name' = << >>
    /\ email' = << >>
    /\ isSubmitted' = FALSE
    /\ errors' = NoErrors
    /\ submitError' = ""
    /\ touched' = untouched
    /\ UNCHANGED isLoading
    /\ UNCHANGED <<env, net>>
    /\ last' = [op |-> "reset"]
    /\ Commit(FALSE)

-----------------------------------------------------------------------------

Next ==
    \/ \E r \in Ratings : selectRating(r)
    \/ \E v \in FeedbackInputs : changeFeedback(v)
    \/ \E v \in NameInputs : changeName(v)
    \/ \E v \in EmailInputs : changeEmail(v)
    \/ \E f \in Fields : handleBlur(f)
    \/ clickSubmit
    \/ \E i \in 1..MaxAwaiting, o \in Outcomes : fetchSettles(i, o)
    \/ \E i \in 1..MaxAwaiting : configErrorReturns(i)
    \/ handleReset

Spec == Init /\ [][Next]_vars

-----------------------------------------------------------------------------
(* The submission state machine of the specification, read off the state *)

InFlight == isLoading
Succeeded == isSubmitted /\ ~isLoading
Failed == ~isLoading /\ ~isSubmitted /\ submitError # ""
Idle == ~isLoading /\ ~isSubmitted /\ submitError = ""

\* the suspended submissions that have an HTTP request outstanding
requests == {i \in DOMAIN awaiting : awaiting[i].fetch}

\* a text has a character that is not whitespace: its trimmed form is not empty
HasVisibleChar(s) == \E i \in 1..Len(s) : s[i] \notin Whitespace

\* the rating is set and every field passes validation
Submittable ==
    selectedRating \in Ratings /\ validateForm(feedback, name, email)

-----------------------------------------------------------------------------
(* Properties *)

\* C1: at most one submission is in flight at any time: there is never more
\* than one suspended handleSubmit (hence never more than one outstanding
\* request), and while one is in flight the submit button cannot be clicked.
C1_AtMostOneInFlight ==
    /\ Len(awaiting) <= 1
    /\ Cardinality(requests) <= 1
    /\ InFlight <=> awaiting # << >>
    /\ InFlight => ~view.submitEnabled

\* C1 witness: a request is outstanding and the submit button is on screen
C1_Witness ==
    /\ InFlight
    /\ requests = {1}
    /\ view.submitButton
    /\ last.op = "submit"

\* C2: a step enters InFlight, or starts a submission, only from a state whose
\* rating is set and whose fields pass validation; a submit action taken when
\* a field fails validation leaves the form out of InFlight and starts nothing.
C2_InFlightOnlyIfValid ==
    [][ /\ ((~InFlight /\ InFlight') \/ Len(awaiting') > Len(awaiting))
            => Submittable
        /\ (last'.op = "submit" /\ ~Submittable)
            => (~InFlight' /\ awaiting' = awaiting /\ ~last'.accepted) ]_vars

\* C2 witness: submit was clicked with an invalid field and was turned down
C2_Witness ==
    /\ last.op = "submit"
    /\ ~last.accepted
    /\ ~Submittable
    /\ ~InFlight
    /\ awaiting = << >>

\* C3: the submit control is enabled only if the rating is set and feedback,
\* name and email all pass validation.
C3_SubmitEnabledOnlyIfValid == view.submitEnabled => Submittable

\* C4: while the form is shown, the feedback area is visible iff the rating is
\* set, the contact fields iff moreover the feedback has a visible character,
\* the submit control iff moreover name and email have one; and selecting a
\* rating in the initial state shows the feedback area and nothing more.
C4_Visibility ==
    /\ [](view.ratingPicker =>
            /\ view.feedbackArea <=> selectedRating \in Ratings
            /\ view.contactFields <=>
                 (selectedRating \in Ratings /\ HasVisibleChar(feedback))
            /\ view.submitButton <=>
                 (/\ selectedRating \in Ratings
                  /\ HasVisibleChar(feedback)
                  /\ HasVisibleChar(name)
                  /\ HasVisibleChar(email)))
    /\ [][(last.op = "mount" /\ selectedRating' \in Ratings)
            => (view'.feedbackArea /\ ~view'.contactFields
                /\ ~view'.submitButton)]_vars

\* C4 witness: the submit control is on screen although a field is invalid,
\* and some field holds whitespace around its text
C4_Witness ==
    /\ view.ratingPicker
    /\ view.submitButton
    /\ ~Submittable
    /\ trim(feedback) # feedback

\* a response whose status is in the success range
SuccessStatus(o) ==
    o.kind = "response" /\ o.response.status \in 200..299

\* the message a failed call must leave: status and status text of a response
\* outside the success range, else the fault's message, else a fallback
FailureMessage(o) ==
    IF o.kind = "response"
    THEN "Webhook error: " \o ToString(o.response.status) \o " "
         \o o.response.statusText
    ELSE IF o.error.isError /\ o.error.message # ""
         THEN o.error.message
         ELSE "Failed to submit feedback"

\* only the thank-you screen is on screen
OnlyThankYouShown ==
    /\ view.thankYou
    /\ ~view.ratingPicker
    /\ ~view.feedbackArea
    /\ ~view.contactFields
    /\ ~view.submitButton

\* only the rating picker is on screen
OnlyRatingPickerShown ==
    /\ view.ratingPicker
    /\ ~view.thankYou
    /\ ~view.feedbackArea
    /\ ~view.contactFields
    /\ ~view.submitButton

\* C5: when the call of a submission in flight resolves with a status in the
\* success range, whatever the body, the form is Succeeded and the thank-you
\* screen replaces the form.
C5_SuccessOnStatus ==
    (last.op = "settle" /\ SuccessStatus(last.outcome))
        => (Succeeded /\ isSubmitted /\ ~isLoading /\ OnlyThankYouShown)

\* C5 witness: a 2xx response whose body is not JSON has been handled
C5_Witness ==
    /\ last.op = "settle"
    /\ SuccessStatus(last.outcome)
    /\ last.outcome.response.body = "not json"
    /\ Succeeded

\* C6: when the call of a submission in flight returns a status outside the
\* success range or the transport throws, the form is Failed with the
\* prescribed non-empty message, not Succeeded, and no fault has escaped.
C6_FailureOnFault ==
    /\ ~uncaught
    /\ (last.op = "settle" /\ ~SuccessStatus(last.outcome))
          => /\ Failed
             /\ ~isSubmitted
             /\ submitError # ""
             /\ submitError = FailureMessage(last.outcome)

\* C6 witness: fetch rejected with an Error that carries no message
C6_Witness ==
    /\ last.op = "settle"
    /\ last.outcome.kind = "reject"
    /\ last.outcome.error.isError
    /\ last.outcome.error.message = ""
    /\ Failed

\* C7: the step that takes a submission from InFlight to Failed leaves rating,
\* feedback, name, email and the touched flags as they were, with the form on
\* screen and no longer loading.
C7_FailureKeepsInput ==
    [][(InFlight /\ ~InFlight' /\ ~isSubmitted')
         => /\ UNCHANGED <<selectedRating, feedback, name, email, touched>>
            /\ Failed'
            /\ view'.ratingPicker
            /\ view'.feedbackArea
            /\ ~view'.thankYou]_vars

\* C7 witness: a submission has just failed and the form is still filled in
C7_Witness ==
    /\ last.op = "settle"
    /\ Failed
    /\ Submittable
    /\ view.submitEnabled

\* in the Failed state, with valid input, the submit button can be clicked
RetryOffered == (Failed /\ Submittable) => view.submitEnabled

\* a submit accepted in the Failed state enters InFlight, clears the message,
\* suspends one more handleSubmit and issues n HTTP requests
RetryIssues(n) ==
    (Failed /\ Submittable /\ last'.op = "submit")
        => /\ InFlight'
           /\ submitError' = ""
           /\ Len(awaiting') = Len(awaiting) + 1
           /\ Cardinality(requests') = Cardinality(requests) + n

\* a request is issued only by a step that is a click on submit
NoAutomaticRetry ==
    Cardinality(requests') > Cardinality(requests) => last'.op = "submit"

\* C8 (amended): from Failed the user may always retry; an accepted retry
\* moves Failed to InFlight, clears the failure message and issues exactly one
\* request if an endpoint URL is configured and none if it is not; no request
\* is issued without a click on submit.
C8_RetryFromFailed ==
    /\ []RetryOffered
    /\ [][RetryIssues(IF WEBHOOK_URL # "" THEN 1 ELSE 0)]_vars
    /\ [][NoAutomaticRetry]_vars

\* C8 witness: a retry was accepted in the Failed state and its request is out
C8_Witness ==
    /\ last.op = "submit"
    /\ last.accepted
    /\ last.retry
    /\ InFlight
    /\ submitError = ""
    /\ requests = {1}

\* C8 (as claimed): every accepted retry issues exactly one webhook request
C8_RetryAlwaysIssuesRequest ==
    /\ []RetryOffered
    /\ [][RetryIssues(1)]_vars
    /\ [][NoAutomaticRetry]_vars

\* C9: after reset the form is in its mount-time state: rating unset, fields
\* empty, nothing touched, no stored errors, no failure message, Idle, and
\* only the rating picker on screen.
C9_ResetRestoresInitial ==
    last.op = "reset"
        => /\ selectedRating = Null
           /\ feedback = << >>
           /\ name = << >>
           /\ email = << >>
           /\ touched = [f \in Fields |-> FALSE]
           /\ DOMAIN errors = {}
           /\ submitError = ""
           /\ ~isSubmitted
           /\ ~isLoading
           /\ ~isFormValid
           /\ Idle
           /\ OnlyRatingPickerShown
           /\ \A f \in Fields : view.inlineErrors[f] = ""
           /\ view.submitErrorBox = ""

\* C9 witness: reset has just been invoked on the thank-you screen
C9_Witness ==
    /\ last.op = "reset"
    /\ ~isSubmitted
    /\ view.ratingPicker

\* C10: in the Succeeded state only the thank-you screen is shown and nothing
\* is in flight; every step out of a Succeeded state is a reset, so no field
\* changes and no submission starts before it.
C10_SucceededUntilReset ==
    /\ [](isSubmitted =>
            (Succeeded /\ OnlyThankYouShown /\ ~view.submitEnabled
             /\ awaiting = << >>))
    /\ [][isSubmitted => (last'.op = "reset" /\ ~isSubmitted')]_vars

\* C10 witness: the thank-you screen is shown over a filled-in form
C10_Witness ==
    /\ Succeeded
    /\ view.thankYou
    /\ feedback # << >>
    /\ last.op = "settle"

\* C11: when no endpoint URL is configured no HTTP request is ever issued and
\* the thank-you state is never reached; an accepted submit is followed at once
\* by the configuration error, and that step ends in Failed with the
\* configuration-error message, the form shown and every input preserved.
C11_NoEndpointFailsWithoutRequest ==
    /\ [](WEBHOOK_URL = "" =>
            /\ requests = {}
            /\ ~isSubmitted
            /\ InFlight => MicrotaskQueued
            /\ (last.op = "submit" /\ last.accepted) => InFlight
            /\ last.op # "settle")
    /\ [][(WEBHOOK_URL = "" /\ InFlight) =>
            /\ last'.op = "configError"
            /\ Failed'
            /\ submitError' = configError.message
            /\ view'.submitErrorBox = configError.message
            /\ view'.ratingPicker /\ view'.feedbackArea /\ view'.contactFields
            /\ view'.submitEnabled = view'.submitButton
            /\ UNCHANGED <<selectedRating, feedback, name, email, touched>>]_vars

\* C11 witness: without an endpoint, an accepted submit has just ended in the
\* configuration error and the filled-in form can be submitted again
C11_Witness ==
    /\ WEBHOOK_URL = ""
    /\ last.op = "configError"
    /\ Failed
    /\ submitError = configError.message
    /\ Submittable
    /\ view.submitEnabled

\* C12: while a submission is in flight the submit control is disabled and
\* the reset control is not on screen; a step taken by the user (an edit, a
\* rating selection, a blur) leaves the submission in flight with the same
\* suspended call, and the only steps that leave InFlight are the webhook
\* call's completion, which ends in Succeeded or Failed.
C12_InFlightUntilResolved ==
    /\ [](InFlight => (~view.submitEnabled /\ ~view.thankYou))
    /\ [][InFlight =>
            IF last'.op \in {"settle", "configError"}
            THEN /\ ~InFlight'
                 /\ Succeeded' \/ Failed'
                 /\ Len(awaiting') < Len(awaiting)
            ELSE /\ last'.op = "edit"
                 /\ InFlight'
                 /\ UNCHANGED <<isLoading, isSubmitted, submitError, awaiting>>]_vars

\* C12 witness: the user edited the form while the request was outstanding
C12_Witness ==
    /\ InFlight
    /\ requests = {1}
    /\ last.op = "edit"
    /\ ~Submittable

-----------------------------------------------------------------------------
(* Fairness: a pending fetch promise settles, and a resolved promise's
   continuation is run by the microtask queue *)

FairSpec ==
    /\ Spec
    /\ WF_vars(\E i \in 1..MaxAwaiting, o \in Outcomes : fetchSettles(i, o))
    /\ WF_vars(\E i \in 1..MaxAwaiting : configErrorReturns(i))

\* C13: provided the fetch promise settles, every submission in flight
\* eventually ends in Succeeded or Failed; and whichever way the call ends
\* (a success, a failure result, a thrown fault) the step that resumes
\* handleSubmit leaves the loading flag cleared.
C13_InFlightEventuallyLeaves ==
    /\ InFlight ~> (Succeeded \/ Failed)
    /\ [](last.op \in {"settle", "configError"} =>
            (~isLoading /\ (Succeeded \/ Failed)))

\* C13 witness: the fetch promise rejected with a value that is not an Error
\* and the loading flag is cleared
C13_Witness ==
    /\ last.op = "settle"
    /\ last.outcome.kind = "reject"
    /\ ~last.outcome.error.isError
    /\ ~isLoading
    /\ Failed

-----------------------------------------------------------------------------
(* The field rules of the specification, stated on the text itself *)

\* a text without its leading and trailing whitespace
TrimmedOf(s) ==
    IF ~HasVisibleChar(s) THEN << >>
    ELSE LET visible == {i \in 1..Len(s) : s[i] \notin Whitespace}
             lo == CHOOSE i \in visible : \A j \in visible : i <= j
             hi == CHOOSE i \in visible : \A j \in visible : i >= j
         IN  SubSeq(s, lo, hi)

\* local-part@domain.tld: a single '@', no whitespace anywhere, a non-empty
\* local part, and after the '@' a '.' with a character on either side of it
MatchesEmailPattern(e) ==
    LET ats == {i \in 1..Len(e) : e[i] = "@"}
    IN  /\ Cardinality(ats) = 1
        /\ \A i \in 1..Len(e) : e[i] \notin Whitespace
        /\ \E at \in ats :
             /\ at > 1
             /\ \E d \in (at + 2)..(Len(e) - 1) : e[d] = "."

\* C14: every payload of a suspended submission has a rating in {1,2,3}, a
\* trimmed feedback of at least 10 characters, a trimmed non-empty name and
\* an email matching the pattern; the payload built by an accepted submit is
\* the rating and the trimmed fields of the state the submit was taken in; and
\* an edit made while the call is outstanding leaves the payload as it was.
C14_PayloadFromAcceptedState ==
    /\ [](\A i \in DOMAIN awaiting :
            LET d == awaiting[i].data
            IN  /\ d.rating \in Ratings
                /\ d.feedback = TrimmedOf(d.feedback)
                /\ Len(d.feedback) >= 10
                /\ d.name = TrimmedOf(d.name)
                /\ d.name # << >>
                /\ MatchesEmailPattern(d.email))
    /\ [][(last'.op = "submit" /\ last'.accepted) =>
            /\ Len(awaiting') = Len(awaiting) + 1
            /\ awaiting'[Len(awaiting')].data =
                 [rating |-> selectedRating, feedback |-> TrimmedOf(feedback),
                  name |-> TrimmedOf(name), email |-> TrimmedOf(email)]]_vars
    /\ [][last'.op = "edit" => awaiting' = awaiting]_vars

\* C14 witness: rating and name were changed while the request was
\* outstanding, and the payload still holds what was submitted
C14_Witness ==
    /\ InFlight
    /\ requests = {1}
    /\ awaiting[1].data.rating # selectedRating
    /\ awaiting[1].data.name # TrimmedOf(name)
    /\ awaiting[1].data.feedback # feedback

-----------------------------------------------------------------------------
(* Validation on its own: a filled-in form whose fields are blurred *)

\* feedback texts of trimmed length 0, 1, 9, 10 and 11
ValidationFeedbacks ==
    { << >>,
      <<" ", "\t">>,
      <<"a">>,
      Rep("a", 9),
      <<" ">> \o Rep("a", 9) \o <<"\n">>,
      Rep("a", 10),
      <<" ">> \o Rep("a", 10),
      Rep("a", 4) \o <<" ">> \o Rep("a", 6) }

ValidationNames == { << >>, <<" ">>, <<"A">>, <<" ", "A", " ">> }

ValidationEmails ==
    { << >>,
      <<" ">>,
      <<"a", "@", "b", ".", "c", "o">>,
      <<"a", "@", "b">>,
      <<"a", " ", "b", "@", "c", ".", "c", "o", "m">>,
      <<"a", "b", "c", ".", "c", "o", "m">>,
      <<" ", "a", "@", "b", ".", "c", "o">>,
      <<"a", "@", "b", ".", "c", "o", " ">>,
      <<"a", "@", "@", "b", ".", "c", "o">>,
      <<"a", "@", "b", "@", "c", ".", "c", "o">>,
      <<"@", "b", ".", "c", "o">>,
      <<"a", "@", ".", "c", "o">>,
      <<"a", "@", "b", ".">>,
      <<"a", ".", "b", "@", "c">>,
      <<"a", "@", "b", ".", "c", ".", "d">> }

\* the mounted form with a rating chosen and the three fields typed in
ValidationInit ==
    /\ component \in Components
    /\ WEBHOOK_URL = "https://hooks.example/feedback"
    /\ selectedRating \in Ratings
    /\ feedback \in ValidationFeedbacks
    /\ name \in ValidationNames
    /\ email \in ValidationEmails
    /\ isSubmitted = FALSE
    /\ isLoading = FALSE
    /\ errors = NoErrors
    /\ touched = untouched
    /\ submitError = ""
    /\ isFormValid = (component = Main /\ checkFormValidity)
    /\ awaiting = << >>
    /\ uncaught = FALSE
    /\ last = [op |-> "edit"]
    /\ view = Render

ValidationNext == \E f \in Fields : handleBlur(f)

ValidationSpec == ValidationInit /\ [][ValidationNext]_vars

\* the text of an email field stands for one of the specification's examples
EmailIs(s) ==
    \/ s = "a@b.co" /\ email = <<"a", "@", "b", ".", "c", "o">>
    \/ s = "a@b" /\ email = <<"a", "@", "b">>
    \/ s = "a b@c.com" /\ email = <<"a", " ", "b", "@", "c", ".", "c", "o", "m">>
    \/ s = "abc.com" /\ email = <<"a", "b", "c", ".", "c", "o", "m">>

\* C15: once validation has run, the stored errors are exactly the prescribed
\* ones: feedback "required" for trimmed length 0, "at least 10 characters"
\* for 1 to 9, none from 10 on; name "required" for trimmed length 0; email
\* "required" for trimmed length 0, else "valid email address" unless it
\* matches the pattern; "a@b.co" passes, "a@b", "a b@c.com", "abc.com" do not.
C15_ValidationRules ==
    touched # untouched =>
      /\ DOMAIN errors \subseteq Fields
      /\ LET n == Len(TrimmedOf(feedback))
         IN  IF n = 0 THEN /\ "feedback" \in DOMAIN errors
                           /\ errors.feedback = "Feedback is required"
             ELSE IF n <= 9
                  THEN /\ "feedback" \in DOMAIN errors
                       /\ errors.feedback = "Feedback must be at least 10 characters"
                  ELSE "feedback" \notin DOMAIN errors
      /\ IF Len(TrimmedOf(name)) = 0
         THEN "name" \in DOMAIN errors /\ errors.name = "Name is required"
         ELSE "name" \notin DOMAIN errors
      /\ IF Len(TrimmedOf(email)) = 0
         THEN "email" \in DOMAIN errors /\ errors.email = "Email is required"
         ELSE IF ~MatchesEmailPattern(email)
              THEN /\ "email" \in DOMAIN errors
                   /\ errors.email = "Please enter a valid email address"
              ELSE "email" \notin DOMAIN errors
      /\ EmailIs("a@b.co") => "email" \notin DOMAIN errors
      /\ (EmailIs("a@b") \/ EmailIs("a b@c.com") \/ EmailIs("abc.com"))
           => ("email" \in DOMAIN errors
               /\ errors.email = "Please enter a valid email address")

\* C15 witness: validation has run on an email with a space in its local
\* part, next to a feedback one character short and a well-formed name
C15_Witness ==
    /\ touched.email
    /\ EmailIs("a b@c.com")
    /\ errors.email = "Please enter a valid email address"
    /\ Len(TrimmedOf(feedback)) = 9
    /\ errors.feedback = "Feedback must be at least 10 characters"
    /\ "name" \notin DOMAIN errors

-----------------------------------------------------------------------------

\* C16: an inline error is on screen for a field only if the field's touched
\* flag is set; a touched flag is raised only by a blur of that field or by a
\* submit; and whether the submit control is enabled, and whether a submit is
\* accepted, is settled by the rating, the fields and the loading flag alone,
\* whatever the touched flags are.
C16_TouchedGatesDisplayOnly ==
    /\ [](\A f \in Fields : view.inlineErrors[f] # "" => touched[f])
    /\ [][\A f \in Fields :
            (~touched[f] /\ touched'[f]) =>
                (handleBlur(f) \/ last'.op = "submit")]_vars
    /\ [](view.submitEnabled <=>
            /\ ~isSubmitted
            /\ ~isLoading
            /\ selectedRating \in Ratings
            /\ HasVisibleChar(feedback)
            /\ HasVisibleChar(name)
            /\ HasVisibleChar(email)
            /\ component = Main => Submittable)
    /\ [](last.op = "submit" => (last.accepted <=> Submittable))

\* C16 witness: validation has stored an error for the email, which is on
\* screen, and the error is not displayed because the email was never blurred
C16_Witness ==
    /\ view.contactFields
    /\ "email" \in DOMAIN errors
    /\ ~touched.email
    /\ touched.feedback
    /\ view.inlineErrors.email = ""
    /\ view.inlineErrors.feedback = ""

\* C17: a step enters InFlight only as a submit, and it leaves all three
\* touched flags set and the failure message empty; the flags stay set and
\* the message stays empty, and off screen, for as long as the call is
\* outstanding.
C17_SubmitTouchesAllAndClearsFailure ==
    /\ [][(~InFlight /\ InFlight') =>
            /\ last'.op = "submit"
            /\ \A f \in Fields : touched'[f]
            /\ submitError' = ""]_vars
    /\ [](InFlight =>
            /\ \A f \in Fields : touched[f]
            /\ submitError = ""
            /\ view.submitErrorBox = "")

\* C17 witness: a submit taken with a failure message on screen and without
\* an endpoint has just been accepted
C17_Witness ==
    /\ InFlight
    /\ last.op = "submit"
    /\ last.retry
    /\ WEBHOOK_URL = ""
    /\ submitError = ""

\* C18: whenever the last submission ended in a failure and no submit has
\* been accepted since, the failure message is displayed, whatever edits were
\* made during or after the failed request.
C18_FailureMessageDisplayed ==
    Failed => (view.submitErrorBox = submitError)

\* C19: checkFormValidity is true exactly when the rating is set and
\* validateForm reports no error; the flag the button reads holds that value,
\* so a submit control that is enabled is accepted when clicked, and one that
\* is on screen, idle and disabled would have been rejected.
C19_ValidityAgreesWithValidation ==
    /\ checkFormValidity <=>
         (RatingSet(selectedRating) /\ validateForm(feedback, name, email))
    /\ component = Main =>
         /\ isFormValid = checkFormValidity
         /\ view.submitEnabled => submitAccepted
         /\ (view.submitButton /\ ~isLoading /\ ~view.submitEnabled)
              => ~submitAccepted

\* C19 witness: the submit control of the validating component is on screen
\* and disabled because the email, although not blank, is malformed
C19_Witness ==
    /\ component = Main
    /\ view.submitButton
    /\ ~isLoading
    /\ ~view.submitEnabled
    /\ HasVisibleChar(email)
    /\ ~MatchesEmailPattern(email)
    /\ Len(TrimmedOf(feedback)) >= 10

-----------------------------------------------------------------------------

\* the current value of a field breaks the field's rule
Violates(f) ==
    IF f = "feedback" THEN Len(TrimmedOf(feedback)) < 10
    ELSE IF f = "name" THEN Len(TrimmedOf(name)) = 0
    ELSE Len(TrimmedOf(email)) = 0 \/ ~MatchesEmailPattern(email)

\* the input of a field is on screen
OnScreen(f) == IF f = "feedback" THEN view.feedbackArea ELSE view.contactFields

\* C20 (as stated): in every reachable state an inline error is displayed for
\* a field only if the field's current value violates its rule, and a touched
\* field whose current value violates its rule has its error displayed.
C20_ErrorsConsistentWithFields ==
    \A f \in Fields :
        /\ view.inlineErrors[f] # "" => Violates(f)
        /\ (touched[f] /\ Violates(f)) => view.inlineErrors[f] # ""

\* C20 (amended): in the state a blur or a submit leaves, an inline error is
\* displayed for a field only if the field's current value violates its rule,
\* and a touched field that is on screen and whose current value violates its
\* rule has its error displayed.
C20_ConsistentAfterValidation ==
    [][((\E g \in Fields : handleBlur(g)) \/ last'.op = "submit") =>
        \A f \in Fields :
            /\ view'.inlineErrors[f] # "" => Violates(f)'
            /\ (touched'[f] /\ OnScreen(f)' /\ Violates(f)')
                 => view'.inlineErrors[f] # ""]_vars

\* C20 witness: validation has just run on the current values: the feedback
\* is too short and says so, and the name, touched as well, is in order
C20_Witness ==
    /\ errors = newErrors(feedback, name, email)
    /\ touched.feedback
    /\ touched.name
    /\ ~touched.email
    /\ view.inlineErrors.feedback = "Feedback must be at least 10 characters"
    /\ view.inlineErrors.name = ""
    /\ ~Violates("name")

====
